---- MODULE Spec2Model ----
(***************************************************************************)
(* Model of the bot-scrap crawler: the Redis-backed frontier               *)
(* (services/redisQueue.js) and the SteamBot loop (bots/steamBot.js).      *)
(* Every await on Redis, on the scraper, on MongoDB or on a timer is one   *)
(* step; several loops (several bots, or one bot started twice) interleave *)
(* at those steps against one Redis server.                                *)
(***************************************************************************)
EXTENDS Integers, Sequences, FiniteSets

\* ---------------------------------------------------------------- bounds
NumIds == 3          \* steamid64 values 1..NumIds
NumRuns == 2         \* calls of SteamBot.start() that are in flight
TickMs == 20000      \* largest amount of time one Tick lets pass
MaxFailures == 1     \* scrapes, upserts and Redis commands that fail
MaxStops == 1        \* calls of stop()

\* ------------------------------------------------------ program constants
IDLE_WAIT_MS == 1000
COOLDOWN_MS == 60000
PACE_BASE_MS == 1000
PACE_SPAN_MS == 2000
RATE_LIMIT_STATUS == 429

Ids == 1..NumIds
Runs == 1..NumRuns
Bots == 1..NumRuns
Nil == 0             \* null reply of LPOP / undefined seed

Min(a, b) == IF a < b THEN a ELSE b

\* sum of a per-id counter
RECURSIVE SumTo(_, _)
SumTo(f, n) == IF n = 0 THEN 0 ELSE f[n] + SumTo(f, n - 1)
Total(f) == SumTo(f, NumIds)

\* Math.floor(Math.random() * 2000) + 1000 : an integer in 1000..2999
PacingDelays == {PACE_BASE_MS, PACE_BASE_MS + PACE_SPAN_MS - 1}

\* err.response && err.response.status === 429
\* (status Nil: an error without a response, e.g. a network or parse error)
IsRateLimit(status) == status # Nil /\ status = RATE_LIMIT_STATUS
ErrorStatuses == {Nil, 404, RATE_LIMIT_STATUS}

\* --------------------------------------------------------- Redis commands
\* SADD key member: reply 1 when the member is new, 0 otherwise
SADD_AlwaysNew(set, id) == [added |-> TRUE, set |-> set \cup {id}]
SADD_NoInsert(set, id) == [added |-> id \notin set, set |-> set]
SADD_NoReply(set, id) == [added |-> FALSE, set |-> set \cup {id}]
SADD(set, id) == [added |-> id \notin set, set |-> set \cup {id}]

\* RPUSH key value: append at the tail
RPUSH_Twice(q, id) == Append(Append(q, id), id)
RPUSH_Front(q, id) == <<id>> \o q
RPUSH(q, id) == Append(q, id)

\* LPOP key: remove and reply the head, or reply null on an empty list
LPOP_Peek(q) == IF q = <<>> THEN [val |-> Nil, list |-> q]
                ELSE [val |-> Head(q), list |-> q]
LPOP(q) == IF q = <<>> THEN [val |-> Nil, list |-> q]
           ELSE [val |-> Head(q), list |-> Tail(q)]

\* ------------------------------------------------------------ seed inputs
\* process.argv[2]: absent, a 17-digit steamid64, or a URL / custom name
NoSeed == [canon |-> TRUE, id |-> Nil]
SeedInputs == {NoSeed, [canon |-> TRUE, id |-> 1], [canon |-> FALSE, id |-> 1],
               [canon |-> TRUE, id |-> 2]}
\* /^\d{17}$/.test(seed)
IsSteamId64(s) == s.canon

\* ---------------------------------------------------------- friend graphs
\* the friends page of each profile, as the scraper returns it (in order)
RECURSIVE Range(_, _)
Range(a, b) == IF a > b THEN <<>> ELSE <<a>> \o Range(a + 1, b)
StarGraph == [i \in Ids |-> IF i = 1 THEN Range(2, NumIds) ELSE <<1>>]
ChainGraph == [i \in Ids |-> IF i < NumIds THEN <<i + 1>> ELSE <<>>]
FullGraph == [i \in Ids |-> Range(1, NumIds)]
Graphs == {StarGraph, ChainGraph, FullGraph}

SeqToSet(s) == {s[i] : i \in 1..Len(s)}
RECURSIVE ReachFrom(_, _)
ReachFrom(g, S) ==
  LET T == S \cup UNION {SeqToSet(g[i]) : i \in S}
  IN IF T = S THEN S ELSE ReachFrom(g, T)

\* bots behind the runs: one bot per run, or one bot started by every run
BotAssignments == {[r \in Runs |-> r], [r \in Runs |-> 1]}

VARIABLES
  seen,        \* Redis set steam:seen
  queue,       \* Redis list steam:queue
  running,     \* this.running of each bot
  seed,        \* this.seed of each bot
  botOf,       \* the bot whose start() each run is
  graph,       \* what the remote site serves
  pc,          \* position of each run in start()
  arg,         \* steamid64 argument of the enqueueProfile call in progress
  cur,         \* steamid64 dequeued by the current iteration
  friends,     \* data.friends still to be enqueued
  timer,       \* time left on the pending setTimeout
  \* ---- observation only
  waited,      \* time slept since the last dequeueProfile call
  iterEnq,     \* enqueueProfile calls made since the last dequeueProfile call
  last,        \* how the previous iteration ended
  accepted,    \* per id: enqueueProfile calls that returned 1
  rejected,    \* per id: enqueueProfile calls that returned 0
  stamp,       \* per id: rank of its RPUSH among all RPUSHes (0: none)
  seedAcc,     \* per id: seeding calls that returned 1
  seedRej,     \* per id: seeding calls that returned 0
  delivered,   \* per id: dequeueProfile calls that returned it
  sink,        \* per id: upserts received by MongoDB
  rl,          \* ids whose scrape was answered 429
  failures,    \* scrapes, upserts and Redis commands that have failed
  stops        \* calls of stop() made

frontier == <<seen, queue>>
config == <<seed, botOf, graph>>
local == <<pc, arg, cur, friends, timer>>
obs == <<waited, iterEnq, last, accepted, stamp, rejected, seedAcc, seedRej,
         delivered, sink, rl, failures>>
vars == <<seen, queue, running, seed, botOf, graph, pc, arg, cur, friends,
          timer, waited, iterEnq, last, accepted, stamp, rejected, seedAcc, seedRej,
          delivered, sink, rl, failures, stops>>

WaitPcs == {"idle", "pacing", "cooldown"}
SeedPcs == {"resolve", "seed_sadd", "seed_rpush"}
WorkPcs == {"fetch", "persist", "enq_sadd", "enq_rpush"}

\* constructor + a fresh Redis
Init ==
  /\ seen = {}
  /\ queue = <<>>
  /\ botOf \in BotAssignments
  /\ seed \in [Bots -> SeedInputs]
  /\ \A b \in Bots : (\A r \in Runs : botOf[r] # b) => seed[b] = NoSeed
  /\ graph \in Graphs
  /\ running = [b \in Bots |-> FALSE]
  /\ pc = [r \in Runs |-> "init"]
  /\ arg = [r \in Runs |-> Nil]
  /\ cur = [r \in Runs |-> Nil]
  /\ friends = [r \in Runs |-> <<>>]
  /\ timer = [r \in Runs |-> 0]
  /\ waited = [r \in Runs |-> 0]
  /\ iterEnq = [r \in Runs |-> 0]
  /\ last = [r \in Runs |-> "none"]
  /\ accepted = [i \in Ids |-> 0]
  /\ stamp = [i \in Ids |-> 0]
  /\ rejected = [i \in Ids |-> 0]
  /\ seedAcc = [i \in Ids |-> 0]
  /\ seedRej = [i \in Ids |-> 0]
  /\ delivered = [i \in Ids |-> 0]
  /\ sink = [i \in Ids |-> 0]
  /\ rl = {}
  /\ failures = 0
  /\ stops = 0

\* ------------------------------------------------------------ SteamBot.start
\* the friends loop, were it not followed by the pacing delay
AfterEnqueue_NoPacing(r, d) ==
  IF pc[r] \in SeedPcs
  THEN /\ pc' = [pc EXCEPT ![r] = "loop"]
       /\ UNCHANGED <<friends, timer, last>>
  ELSE /\ friends' = [friends EXCEPT ![r] = Tail(@)]
       /\ IF Tail(friends[r]) # <<>>
          THEN /\ pc' = [pc EXCEPT ![r] = "enq_sadd"]
               /\ UNCHANGED <<timer, last>>
          ELSE /\ pc' = [pc EXCEPT ![r] = "loop"]
               /\ last' = [last EXCEPT ![r] = "ok"]
               /\ UNCHANGED timer

\* what follows an enqueueProfile call that has returned: the seeding call is
\* followed by the loop, a friend's call by the next friend or the pacing delay
AfterEnqueue(r, d) ==
  IF pc[r] \in SeedPcs
  THEN /\ pc' = [pc EXCEPT ![r] = "loop"]
       /\ UNCHANGED <<friends, timer, last>>
  ELSE /\ friends' = [friends EXCEPT ![r] = Tail(@)]
       /\ IF Tail(friends[r]) # <<>>
          THEN /\ pc' = [pc EXCEPT ![r] = "enq_sadd"]
               /\ UNCHANGED <<timer, last>>
          ELSE /\ pc' = [pc EXCEPT ![r] = "pacing"]
               /\ timer' = [timer EXCEPT ![r] = d]
               /\ last' = [last EXCEPT ![r] = "ok"]

EnqArg(r) == IF pc[r] \in SeedPcs THEN arg[r] ELSE Head(friends[r])

\* start(): this.running = true, then the seed is resolved or enqueued
Start(r) ==
  LET b == botOf[r] IN
  /\ pc[r] = "init"
  /\ running' = [running EXCEPT ![b] = TRUE]
  /\ IF seed[b] = NoSeed
     THEN pc' = [pc EXCEPT ![r] = "loop"] /\ UNCHANGED arg
     ELSE IF IsSteamId64(seed[b])
     THEN /\ pc' = [pc EXCEPT ![r] = "seed_sadd"]
          /\ arg' = [arg EXCEPT ![r] = seed[b].id]
     ELSE pc' = [pc EXCEPT ![r] = "resolve"] /\ UNCHANGED arg
  /\ UNCHANGED <<frontier, stops, config, cur, friends, timer, obs>>

\* the scrape of a non-canonical seed returns: seedSteamid64 = data.steamid64
ResolveOk(r) ==
  /\ pc[r] = "resolve"
  /\ pc' = [pc EXCEPT ![r] = "seed_sadd"]
  /\ arg' = [arg EXCEPT ![r] = seed[botOf[r]].id]
  /\ UNCHANGED <<frontier, running, stops, config, cur, friends, timer, obs>>

\* the catch block of the seed resolution, were its return missing
ResolveCatch_Continue(r) ==
  /\ pc' = [pc EXCEPT ![r] = "loop"]
  /\ UNCHANGED <<frontier, running, stops, config, arg, cur, friends, timer>>

\* catch (err) { logger.error(...); return; }
ResolveCatch(r) ==
  /\ pc' = [pc EXCEPT ![r] = "returned"]
  /\ UNCHANGED <<frontier, running, stops, config, arg, cur, friends, timer>>

\* the scrape of a non-canonical seed throws
ResolveFail(r) ==
  /\ pc[r] = "resolve"
  /\ failures < MaxFailures
  /\ failures' = failures + 1
  /\ ResolveCatch(r)
  /\ last' = [last EXCEPT ![r] = "seedfail"]
  /\ UNCHANGED <<waited, iterEnq, accepted, stamp, rejected, seedAcc, seedRej,
                 delivered, sink, rl>>

\* enqueueProfile, first await: SADD steam:seen id; returns 0 when not added
EnqueueSadd(r) ==
  LET id == EnqArg(r)
      res == SADD(seen, id)
      seeding == pc[r] \in SeedPcs
  IN
  /\ pc[r] \in {"seed_sadd", "enq_sadd"}
  /\ seen' = res.set
  /\ iterEnq' = [iterEnq EXCEPT ![r] = IF seeding THEN @ ELSE @ + 1]
  /\ IF res.added
     THEN /\ pc' = [pc EXCEPT ![r] = IF seeding THEN "seed_rpush" ELSE "enq_rpush"]
          /\ UNCHANGED <<friends, timer, last, rejected, seedRej>>
     ELSE /\ rejected' = [rejected EXCEPT ![id] = @ + 1]
          /\ seedRej' = [seedRej EXCEPT ![id] = IF seeding THEN @ + 1 ELSE @]
          /\ \E d \in PacingDelays : AfterEnqueue(r, d)
  /\ UNCHANGED <<queue, running, stops, config, arg, cur, waited, accepted, stamp, seedAcc,
                 delivered, sink, rl, failures, stops>>

\* enqueueProfile, second await: RPUSH steam:queue id; returns 1
EnqueueRpush(r) ==
  LET id == EnqArg(r)
      seeding == pc[r] \in SeedPcs
  IN
  /\ pc[r] \in {"seed_rpush", "enq_rpush"}
  /\ queue' = RPUSH(queue, id)
  /\ accepted' = [accepted EXCEPT ![id] = @ + 1]
  /\ stamp' = [stamp EXCEPT ![id] = Total(accepted) + 1]
  /\ seedAcc' = [seedAcc EXCEPT ![id] = IF seeding THEN @ + 1 ELSE @]
  /\ \E d \in PacingDelays : AfterEnqueue(r, d)
  /\ UNCHANGED <<seen, running, stops, config, arg, cur, waited, iterEnq, rejected,
                 seedRej, delivered, sink, rl, failures>>

\* dequeueProfile(); if (!steamid64) { wait 1000 ms; continue }
DequeueProfile(r) ==
  LET res == LPOP(queue) IN
  /\ queue' = res.list
  /\ waited' = [waited EXCEPT ![r] = 0]
  /\ iterEnq' = [iterEnq EXCEPT ![r] = 0]
  /\ IF res.val = Nil
     THEN /\ pc' = [pc EXCEPT ![r] = "idle"]
          /\ timer' = [timer EXCEPT ![r] = IDLE_WAIT_MS]
          /\ last' = [last EXCEPT ![r] = "empty"]
          /\ UNCHANGED <<cur, delivered>>
     ELSE /\ pc' = [pc EXCEPT ![r] = "fetch"]
          /\ cur' = [cur EXCEPT ![r] = res.val]
          /\ delivered' = [delivered EXCEPT ![res.val] = @ + 1]
          /\ UNCHANGED <<timer, last>>
  /\ UNCHANGED <<seen, running, stops, config, arg, friends, accepted, stamp,
                 rejected, seedAcc, seedRej, sink, rl, failures>>

\* the loop, were it not to test this.running before it dequeues
Dequeue_NoTest(r) ==
  /\ pc[r] = "loop"
  /\ DequeueProfile(r)

\* the loop, were a cooldown of any run to hold every run back
Dequeue_PausedByCooldown(r) ==
  /\ pc[r] = "loop"
  /\ running[botOf[r]]
  /\ \A s \in Runs : pc[s] # "cooldown"
  /\ DequeueProfile(r)

\* while (this.running) { const steamid64 = await dequeueProfile(); ... }
Dequeue(r) ==
  /\ pc[r] = "loop"
  /\ running[botOf[r]]
  /\ DequeueProfile(r)

\* while (this.running) is false: start() returns
Exit(r) ==
  /\ pc[r] = "loop"
  /\ ~running[botOf[r]]
  /\ pc' = [pc EXCEPT ![r] = "returned"]
  /\ UNCHANGED <<frontier, running, stops, config, arg, cur, friends, timer, obs>>

\* the catch block, were it to put a rate-limited id back on the queue
Catch_Requeue(r, status) ==
  /\ IF IsRateLimit(status)
     THEN /\ pc' = [pc EXCEPT ![r] = "cooldown"]
          /\ timer' = [timer EXCEPT ![r] = COOLDOWN_MS]
          /\ queue' = RPUSH(queue, cur[r])
     ELSE /\ pc' = [pc EXCEPT ![r] = "loop"]
          /\ UNCHANGED <<timer, queue>>
  /\ cur' = [cur EXCEPT ![r] = Nil]
  /\ friends' = [friends EXCEPT ![r] = <<>>]
  /\ UNCHANGED <<seen, running, stops, config, arg>>

\* the catch block, were it to take the failed id out of the seen set
Catch_Forget(r, status) ==
  /\ IF IsRateLimit(status)
     THEN /\ pc' = [pc EXCEPT ![r] = "cooldown"]
          /\ timer' = [timer EXCEPT ![r] = COOLDOWN_MS]
     ELSE /\ pc' = [pc EXCEPT ![r] = "loop"]
          /\ UNCHANGED timer
  /\ seen' = seen \ {cur[r]}
  /\ cur' = [cur EXCEPT ![r] = Nil]
  /\ friends' = [friends EXCEPT ![r] = <<>>]
  /\ UNCHANGED <<queue, running, stops, config, arg>>

\* the catch block, were it to pace after an error that is no 429
Catch_PaceOnError(r, status) ==
  /\ IF IsRateLimit(status)
     THEN /\ pc' = [pc EXCEPT ![r] = "cooldown"]
          /\ timer' = [timer EXCEPT ![r] = COOLDOWN_MS]
     ELSE /\ pc' = [pc EXCEPT ![r] = "pacing"]
          /\ timer' = [timer EXCEPT ![r] = PACE_BASE_MS]
  /\ cur' = [cur EXCEPT ![r] = Nil]
  /\ friends' = [friends EXCEPT ![r] = <<>>]
  /\ UNCHANGED <<frontier, running, stops, config, arg>>

\* the catch block, were it to rethrow what is no 429
Catch_Rethrow(r, status) ==
  /\ IF IsRateLimit(status)
     THEN /\ pc' = [pc EXCEPT ![r] = "cooldown"]
          /\ timer' = [timer EXCEPT ![r] = COOLDOWN_MS]
     ELSE /\ pc' = [pc EXCEPT ![r] = "crashed"]
          /\ UNCHANGED timer
  /\ cur' = [cur EXCEPT ![r] = Nil]
  /\ friends' = [friends EXCEPT ![r] = <<>>]
  /\ UNCHANGED <<frontier, running, stops, config, arg>>

\* catch (err): a 429 response waits one minute, anything else is logged;
\* either way the iteration is over and the dequeued id is not put back
Catch(r, status) ==
  /\ IF IsRateLimit(status)
     THEN /\ pc' = [pc EXCEPT ![r] = "cooldown"]
          /\ timer' = [timer EXCEPT ![r] = COOLDOWN_MS]
     ELSE /\ pc' = [pc EXCEPT ![r] = "loop"]
          /\ UNCHANGED timer
  /\ cur' = [cur EXCEPT ![r] = Nil]
  /\ friends' = [friends EXCEPT ![r] = <<>>]
  /\ UNCHANGED <<frontier, running, stops, config, arg>>

\* what an observer records of an iteration that ends in the catch block
Thrown(r, status, what) ==
  /\ failures < MaxFailures
  /\ failures' = failures + 1
  /\ last' = [last EXCEPT ![r] = IF status = RATE_LIMIT_STATUS
                                 THEN "ratelimited" ELSE what]
  /\ rl' = IF status = RATE_LIMIT_STATUS THEN rl \cup {cur[r]} ELSE rl
  /\ UNCHANGED <<waited, iterEnq, accepted, stamp, rejected, seedAcc, seedRej,
                 delivered, sink>>

\* scrapeProfile, were it to return no friend at all
FetchOk_DropFriends(r) ==
  /\ pc[r] = "fetch"
  /\ pc' = [pc EXCEPT ![r] = "persist"]
  /\ friends' = [friends EXCEPT ![r] = <<>>]
  /\ UNCHANGED <<frontier, running, stops, config, arg, cur, timer, obs>>

\* scrapeProfile returns the record; data.friends is the friends page
FetchOk(r) ==
  /\ pc[r] = "fetch"
  /\ pc' = [pc EXCEPT ![r] = "persist"]
  /\ friends' = [friends EXCEPT ![r] = graph[cur[r]]]
  /\ UNCHANGED <<frontier, running, stops, config, arg, cur, timer, obs>>

\* the friends try/catch of scrapeProfile, were it to let a 429 through to
\* the catch block of the loop
FriendsCatch_Rethrow429(r, status) ==
  IF IsRateLimit(status)
  THEN /\ pc' = [pc EXCEPT ![r] = "cooldown"]
       /\ timer' = [timer EXCEPT ![r] = COOLDOWN_MS]
       /\ cur' = [cur EXCEPT ![r] = Nil]
       /\ friends' = [friends EXCEPT ![r] = <<>>]
       /\ UNCHANGED <<frontier, running, stops, config, arg>>
  ELSE /\ pc' = [pc EXCEPT ![r] = "persist"]
       /\ friends' = [friends EXCEPT ![r] = <<>>]
       /\ UNCHANGED <<frontier, running, stops, config, arg, cur, timer>>

\* try { friends page } catch (err) { friends = [] }: whatever the error,
\* scrapeProfile returns the record with data.friends = []
FriendsCatch(r, status) ==
  /\ pc' = [pc EXCEPT ![r] = "persist"]
  /\ friends' = [friends EXCEPT ![r] = <<>>]
  /\ UNCHANGED <<frontier, running, stops, config, arg, cur, timer>>

\* the friends page request of scrapeProfile fails, with a status or none
FetchOkNoFriends(r) ==
  /\ pc[r] = "fetch"
  /\ failures < MaxFailures
  /\ failures' = failures + 1
  /\ \E status \in ErrorStatuses :
       /\ FriendsCatch(r, status)
       /\ last' = [last EXCEPT ![r] = IF status = RATE_LIMIT_STATUS
                                      THEN "friends429" ELSE "friendsfail"]
  /\ UNCHANGED <<waited, iterEnq, accepted, stamp, rejected, seedAcc, seedRej,
                 delivered, sink, rl>>

\* the profile page request throws (axios error, or no steamid64 in the page)
FetchFail(r) ==
  /\ pc[r] = "fetch"
  /\ \E status \in ErrorStatuses :
       Catch(r, status) /\ Thrown(r, status, "fetcherror")

\* Profile.findOneAndUpdate(..., {upsert: true}) resolves; the friends loop
\* starts, or, with no friend, the pacing delay
PersistOk(r) ==
  /\ pc[r] = "persist"
  /\ sink' = [sink EXCEPT ![cur[r]] = @ + 1]
  /\ IF friends[r] # <<>>
     THEN /\ pc' = [pc EXCEPT ![r] = "enq_sadd"]
          /\ UNCHANGED <<timer, last>>
     ELSE /\ pc' = [pc EXCEPT ![r] = "pacing"]
          /\ \E d \in PacingDelays : timer' = [timer EXCEPT ![r] = d]
          /\ last' = [last EXCEPT ![r] = "ok"]
  /\ UNCHANGED <<frontier, running, stops, config, arg, cur, friends, waited, iterEnq,
                 accepted, stamp, rejected, seedAcc, seedRej, delivered, rl, failures>>

\* Profile.findOneAndUpdate rejects: a MongoDB error carries no response
PersistFail(r) ==
  /\ pc[r] = "persist"
  /\ Catch(r, Nil) /\ Thrown(r, Nil, "persisterror")

\* time passes for a run that sleeps in setTimeout
Tick(r) ==
  LET d == Min(timer[r], TickMs) IN
  /\ pc[r] \in WaitPcs
  /\ timer[r] > 0
  /\ timer' = [timer EXCEPT ![r] = @ - d]
  /\ waited' = [waited EXCEPT ![r] = @ + d]
  /\ UNCHANGED <<frontier, running, stops, config, pc, arg, cur, friends, iterEnq,
                 last, accepted, stamp, rejected, seedAcc, seedRej, delivered, sink,
                 rl, failures>>

\* the timeout fires: the promise resolves and the loop goes to its test
Wake(r) ==
  /\ pc[r] \in WaitPcs
  /\ timer[r] = 0
  /\ pc' = [pc EXCEPT ![r] = "loop"]
  /\ cur' = [cur EXCEPT ![r] = Nil]
  /\ UNCHANGED <<frontier, running, stops, config, arg, friends, timer, obs>>

\* stop(): this.running = false
Stop(b) ==
  /\ running[b]
  /\ stops < MaxStops
  /\ running' = [running EXCEPT ![b] = FALSE]
  /\ stops' = stops + 1
  /\ UNCHANGED <<frontier, config, local, obs>>

\* a Redis command of enqueueProfile rejects: inside the try block it is
\* caught like any other error, during seeding it rejects start()
EnqueueFail(r) ==
  /\ pc[r] \in {"seed_sadd", "seed_rpush", "enq_sadd", "enq_rpush"}
  /\ IF pc[r] \in SeedPcs
     THEN /\ pc' = [pc EXCEPT ![r] = "crashed"]
          /\ failures < MaxFailures
          /\ failures' = failures + 1
          /\ UNCHANGED <<frontier, running, stops, config, arg, cur, friends, timer,
                         waited, iterEnq, last, accepted, stamp, rejected, seedAcc,
                         seedRej, delivered, sink, rl>>
     ELSE Catch(r, Nil) /\ Thrown(r, Nil, "enqerror")

\* the LPOP of dequeueProfile rejects: line 40 is outside the try block
DequeueFail(r) ==
  /\ pc[r] = "loop"
  /\ running[botOf[r]]
  /\ failures < MaxFailures
  /\ pc' = [pc EXCEPT ![r] = "crashed"]
  /\ failures' = failures + 1
  /\ UNCHANGED <<frontier, running, stops, config, arg, cur, friends, timer, waited,
                 iterEnq, last, accepted, stamp, rejected, seedAcc, seedRej,
                 delivered, sink, rl>>

RunStep(r) ==
  \/ Start(r)
  \/ ResolveOk(r)
  \/ ResolveFail(r)
  \/ EnqueueSadd(r)
  \/ EnqueueRpush(r)
  \/ Dequeue(r)
  \/ Exit(r)
  \/ FetchOk(r)
  \/ FetchOkNoFriends(r)
  \/ FetchFail(r)
  \/ PersistOk(r)
  \/ PersistFail(r)
  \/ Tick(r)
  \/ Wake(r)

Next ==
  \/ \E r \in Runs : RunStep(r)
  \/ \E b \in Bots : Stop(b)

\* Redis answers every command
Spec == Init /\ [][Next]_vars

NextF ==
  \/ Next
  \/ \E r \in Runs : EnqueueFail(r)
  \/ \E r \in Runs : DequeueFail(r)

\* Redis commands may also be rejected
SpecF == Init /\ [][NextF]_vars

TypeOK ==
  /\ seen \subseteq Ids
  /\ queue \in Seq(Ids)
  /\ \A r \in Runs : timer[r] >= 0

\* ------------------------------------------------------------- observations
\* entries of the pending queue that hold id
Pending(id) == Cardinality({k \in 1..Len(queue) : queue[k] = id})

\* runs inside an enqueueProfile(id) call whose SADD replied 1 and whose
\* RPUSH has not been sent yet
Pushing(id) ==
  {r \in Runs : pc[r] \in {"seed_rpush", "enq_rpush"} /\ EnqArg(r) = id}

\* no enqueueProfile and no dequeueProfile call is in progress
FrontierQuiet ==
  \A r \in Runs : pc[r] \notin {"seed_sadd", "seed_rpush", "enq_sadd", "enq_rpush"}

\* ids given as seed by the runs that have been started
SeedSet == {seed[botOf[r]].id : r \in {x \in Runs : pc[x] # "init"}} \ {Nil}

\* the queue is empty and no run is seeding or inside an iteration
Drained ==
  /\ queue = <<>>
  /\ \A r \in Runs : pc[r] \in {"init", "loop", "idle", "returned"}
  /\ \E r \in Runs : pc[r] # "init"

\* -------------------------------------------------------------------- claims
\* C1: of all enqueueProfile calls on one id, whatever their interleaving,
\* exactly one returns "added" (one SADD reply of 1: a call that has returned
\* 1, or the one call that is between its SADD and its RPUSH) and all others
\* return 0; no id is returned by dequeueProfile more than once.
C1_ExactlyOneAccepted ==
  \A i \in Ids :
    /\ accepted[i] + Cardinality(Pushing(i)) = (IF i \in seen THEN 1 ELSE 0)
    /\ rejected[i] > 0 => i \in seen
    /\ delivered[i] <= accepted[i]
    /\ delivered[i] <= 1

C1_Witness ==
  \E i \in Ids : accepted[i] = 1 /\ rejected[i] >= 2 /\ seedRej[i] >= 1
                 /\ delivered[i] = 1

\* C2: every id in the pending queue is in the seen set, in every state,
\* the one between the SADD and the RPUSH of an enqueueProfile call included.
C2_PendingSubsetSeen ==
  \A k \in 1..Len(queue) : queue[k] \in seen

C2_Witness ==
  /\ queue # <<>>
  /\ \E i \in Ids : Pushing(i) # {} /\ i \in seen /\ Pending(i) = 0

\* C3: with no failed scrape or upsert, once the queue is empty and no run is
\* inside an iteration, seen is exactly the set of ids reachable from the
\* seeds, nothing is pending, and MongoDB got one upsert per reachable id.
C3_DrainedCrawl ==
  (failures = 0 /\ Drained) =>
    /\ seen = ReachFrom(graph, SeedSet)
    /\ Len(queue) = 0
    /\ \A i \in Ids : sink[i] = (IF i \in seen THEN 1 ELSE 0)

C3_Witness ==
  /\ failures = 0 /\ Drained
  /\ graph = StarGraph
  /\ SeedSet = {1}
  /\ Cardinality(seen) = NumIds /\ NumIds >= 3
  /\ \A i \in Ids : sink[i] = 1

\* C4: when no enqueueProfile and no dequeueProfile call is in progress, the
\* length of the pending queue is the number of calls that returned "added"
\* minus the number of dequeueProfile calls that returned an id.
C4_SizeBalance ==
  FrontierQuiet => Len(queue) = Total(accepted) - Total(delivered)

C4_Witness ==
  /\ FrontierQuiet
  /\ Total(accepted) >= 3 /\ Total(delivered) >= 1 /\ Len(queue) >= 2

InLoopPcs == WorkPcs \cup WaitPcs \cup {"loop"}

\* C6: the id whose scrape was answered 429 is not put back (it was delivered
\* once, is not pending and no call is about to push it), and the run that got
\* the 429 is back at its dequeue only after COOLDOWN_MS of sleep.
C6_RateLimited ==
  /\ \A x \in rl : delivered[x] = 1 /\ Pending(x) = 0 /\ Pushing(x) = {}
  /\ \A r \in Runs :
       /\ (pc[r] = "cooldown" => waited[r] + timer[r] = COOLDOWN_MS)
       /\ (pc[r] \in {"loop", "returned"} /\ last[r] = "ratelimited"
           => waited[r] >= COOLDOWN_MS)

C6_Witness ==
  \E r \in Runs : /\ pc[r] = "fetch" /\ last[r] = "ratelimited"
                  /\ rl # {} /\ cur[r] \notin rl

\* C7: a scrape that fails with anything but a 429 ends the iteration at
\* once: that step changes neither seen nor the queue, the run has called
\* enqueueProfile for no id and slept no time since its dequeue, and it is
\* back at the loop test with no timer set.
C7_FetchError ==
  [][\A r \in Runs :
       (pc[r] = "fetch" /\ last'[r] = "fetcherror" /\ pc'[r] # pc[r]
          /\ pc'[r] # "persist")
       => /\ seen' = seen /\ queue' = queue
          /\ pc'[r] = "loop"
          /\ timer'[r] = 0 /\ waited'[r] = 0 /\ iterEnq'[r] = 0]_vars

C7_Witness ==
  \E r \in Runs : pc[r] = "fetch" /\ last[r] = "fetcherror"

\* C8: no step taken while a dequeued id is processed (scrape, upsert,
\* enqueue of the friends, failing or not) takes the run out of the loop, and
\* a run inside the loop returns only when this.running is false.
C8_LoopSurvives ==
  [][\A r \in Runs :
       /\ (pc[r] \in WorkPcs => pc'[r] \in InLoopPcs)
       /\ (pc[r] \in InLoopPcs /\ pc'[r] = "returned"
             => ~running[botOf[r]])]_vars

C8_Witness ==
  \E r \in Runs : pc[r] = "fetch" /\ last[r] = "enqerror"

\* C9: a run whose bot was stopped during the idle wait sleeps at most what
\* is left of that IDLE_WAIT_MS wait, then leaves the loop: it goes from the
\* wait to the loop test and from there only to "returned", never to a
\* dequeue or a scrape.
C9_StopWhileIdle ==
  [][\A r \in Runs :
       (~running[botOf[r]] /\ pc[r] \in {"idle", "loop"} /\ pc'[r] # pc[r])
       => /\ (pc[r] = "idle" =>
                pc'[r] = "loop" /\ waited'[r] = IDLE_WAIT_MS /\ timer[r] = 0)
          /\ (pc[r] = "loop" => pc'[r] = "returned")
          /\ delivered' = delivered /\ queue' = queue]_vars

C9_Witness ==
  \E r \in Runs : /\ pc[r] = "idle" /\ ~running[botOf[r]]
                  /\ timer[r] = IDLE_WAIT_MS

\* C10: stop() interrupts the pacing delay and the cooldown: a run whose bot
\* is stopped sleeps no further in either wait.
C10_StopInterruptsWaits ==
  [][\A r \in Runs :
       (~running[botOf[r]] /\ pc[r] \in {"pacing", "cooldown"})
       => waited'[r] = waited[r]]_vars

\* the step is one of run r inside the SADD of an enqueueProfile call
SaddStep(r) ==
  /\ pc[r] \in {"seed_sadd", "enq_sadd"}
  /\ <<pc[r], friends[r], iterEnq[r]>>' # <<pc[r], friends[r], iterEnq[r]>>

\* C11: an enqueueProfile call on an id that is already in seen returns 0 and
\* changes neither seen nor the queue (content and order), whether the id is
\* still pending or has been dequeued; no RPUSH follows.
C11_SeenIsNoOp ==
  [][\A r \in Runs :
       (SaddStep(r) /\ EnqArg(r) \in seen)
       => /\ seen' = seen /\ queue' = queue
          /\ rejected'[EnqArg(r)] = rejected[EnqArg(r)] + 1
          /\ accepted' = accepted
          /\ pc'[r] \notin {"seed_rpush", "enq_rpush"}]_vars

C11_Witness ==
  /\ \E i \in Ids : rejected[i] >= 1 /\ Pending(i) = 1 /\ delivered[i] = 0
  /\ \E j \in Ids : rejected[j] >= 1 /\ Pending(j) = 0 /\ delivered[j] = 1
                    /\ \E r \in Runs : pc[r] = "enq_sadd" /\ EnqArg(r) = j

\* the step is a dequeueProfile call of run r
DequeueStep(r) == pc[r] = "loop" /\ pc'[r] \in {"idle", "fetch"}

\* C12: dequeueProfile returns the pending id that was pushed earliest and
\* removes that entry and no other; it returns nothing exactly when the queue
\* is empty, and then leaves seen and the queue as they are.
C12_Fifo ==
  [][\A r \in Runs :
       DequeueStep(r)
       => /\ seen' = seen
          /\ (pc'[r] = "idle") = (queue = <<>>)
          /\ pc'[r] = "idle" => queue' = queue
          /\ pc'[r] = "fetch" =>
               /\ \A k \in 1..Len(queue) : stamp[cur'[r]] <= stamp[queue[k]]
               /\ stamp[cur'[r]] > 0
               /\ Len(queue') = Len(queue) - 1
               /\ \A i \in Ids :
                    Pending(i)' = Pending(i) - (IF i = cur'[r] THEN 1 ELSE 0)
               /\ \A k \in 1..Len(queue') : queue'[k] = queue[k + 1]]_vars

C12_Witness ==
  \E r \in Runs : /\ pc[r] = "fetch" /\ Len(queue) >= 1
                  /\ stamp[cur[r]] = 2
                  /\ \E s \in Runs : pc[s] = "idle"

\* C13: no step removes an id from seen: not an enqueue, a dequeue, a failed
\* or rate-limited iteration, a wait, nor stop().
C13_SeenGrows ==
  [][seen \subseteq seen']_vars

C13_Witness ==
  /\ Cardinality(seen) = NumIds
  /\ stops > 0 /\ failures > 0
  /\ \A i \in Ids : delivered[i] = 1
  /\ \A r \in Runs : pc[r] = "returned"

\* C14: every id that a SADD has put in seen is pushed exactly once: it is
\* about to be pushed by the call that inserted it, or pending, or was
\* delivered by exactly one dequeueProfile; with no call in progress every
\* seen id is either pending or delivered once.
C14_NoLostEnqueue ==
  /\ \A i \in seen :
       Cardinality(Pushing(i)) + Pending(i) + delivered[i] = 1
  /\ FrontierQuiet => \A i \in seen : Pending(i) + delivered[i] = 1

C14_Witness ==
  /\ FrontierQuiet
  /\ Cardinality(seen) = NumIds
  /\ \E i \in seen : Pending(i) = 1 /\ delivered[i] = 0
  /\ \E i \in seen : Pending(i) = 0 /\ delivered[i] = 1
  /\ \E i \in seen : accepted[i] = 1 /\ seedAcc[i] = 0

\* C15: while this.running is false after stop(), a run starts no dequeue
\* and no scrape; the iteration in progress goes on (upsert, friend
\* enqueues, wait) and, once at the loop test, the run only returns.
C15_NoNewWorkAfterStop ==
  [][\A r \in Runs :
       ~running[botOf[r]]
       => /\ (pc'[r] = "fetch" => pc[r] = "fetch")
          /\ (pc'[r] = "idle" => pc[r] = "idle")
          /\ (pc[r] = "loop" /\ pc'[r] # "loop" => pc'[r] = "returned")
          /\ (pc[r] \in WorkPcs \cup WaitPcs => pc'[r] \in InLoopPcs)]_vars

C15_Witness ==
  \E r \in Runs :
    /\ ~running[botOf[r]] /\ stops > 0
    /\ pc[r] = "enq_rpush" /\ Len(friends[r]) >= 2

\* C16: a run that waits out a 429 holds back no other run: while it is in
\* its cooldown every other run can take the step it is at (dequeue, scrape,
\* upsert, SADD, RPUSH), and neither entering the cooldown, nor the time
\* spent in it, nor leaving it changes the seen set or the queue.
C16_CooldownIsLocal ==
  [][\A r \in Runs :
       /\ pc[r] = "cooldown" =>
            \A s \in Runs \ {r} :
              /\ (pc[s] = "loop" /\ running[botOf[s]]) => ENABLED Dequeue(s)
              /\ pc[s] = "fetch" => ENABLED FetchOk(s)
              /\ pc[s] = "persist" => ENABLED PersistOk(s)
              /\ pc[s] \in {"seed_sadd", "enq_sadd"} => ENABLED EnqueueSadd(s)
              /\ pc[s] \in {"seed_rpush", "enq_rpush"} => ENABLED EnqueueRpush(s)
       /\ (pc'[r] = "cooldown" /\ pc[r] # "cooldown") => frontier' = frontier
       /\ (pc[r] = "cooldown" /\ <<pc[r], timer[r]>>' # <<pc[r], timer[r]>>)
            => frontier' = frontier]_vars

C16_Witness ==
  \E r \in Runs : \E s \in Runs \ {r} :
    /\ pc[r] = "cooldown" /\ timer[r] > 0 /\ waited[r] > 0
    /\ pc[s] = "enq_rpush"
    /\ cur[s] \notin rl /\ delivered[cur[s]] = 1 /\ sink[cur[s]] = 1

\* the part of the fetched friend list that the friends loop has gone through
IsSuffix(s, t) ==
  /\ Len(s) <= Len(t)
  /\ \A k \in 1..Len(s) : s[k] = t[Len(t) - Len(s) + k]

\* C17: in an iteration whose scrape succeeds the upsert comes first (no
\* enqueueProfile call before it, the record is in the sink at every call),
\* then one enqueueProfile call per friend of the record, in the order of the
\* record, then a wait of 1000 to 3000 ms, and the run is back at the
\* dequeue only after that wait.
C17_IterationOrder ==
  \A r \in Runs :
    /\ pc[r] = "persist" => iterEnq[r] = 0 /\ sink[cur[r]] = 0
    /\ pc[r] \in {"enq_sadd", "enq_rpush"} =>
         /\ sink[cur[r]] = 1
         /\ friends[r] # <<>> /\ IsSuffix(friends[r], graph[cur[r]])
         /\ iterEnq[r] + Len(friends[r])
              = Len(graph[cur[r]]) + (IF pc[r] = "enq_rpush" THEN 1 ELSE 0)
    /\ pc[r] = "pacing" =>
         /\ sink[cur[r]] = 1
         /\ friends[r] = <<>>
         /\ iterEnq[r] = Len(graph[cur[r]]) \/ (iterEnq[r] = 0 /\ failures > 0)
         /\ waited[r] + timer[r] \in PACE_BASE_MS..(PACE_BASE_MS + PACE_SPAN_MS)
    /\ (pc[r] = "loop" /\ last[r] = "ok") =>
         waited[r] \in PACE_BASE_MS..(PACE_BASE_MS + PACE_SPAN_MS)

C17_Witness ==
  \E r \in Runs :
    /\ pc[r] = "loop" /\ last[r] = "ok"
    /\ iterEnq[r] >= 2 /\ waited[r] = PACE_BASE_MS + PACE_SPAN_MS - 1

\* the step of run r in which the upsert of its current id is rejected
PersistFailStep(r) ==
  /\ pc[r] = "persist" /\ pc'[r] # "persist"
  /\ sink'[cur[r]] = sink[cur[r]]

\* C18: when the upsert fails, the iteration has called enqueueProfile for
\* no friend and calls it for none, the id is not put back (it stays in
\* seen, is not pending, was delivered once), no delay is set and the run is
\* at the loop test, from where it dequeues next.
C18_PersistFailure ==
  [][\A r \in Runs :
       PersistFailStep(r)
       => /\ seen' = seen /\ queue' = queue
          /\ cur[r] \in seen' /\ Pending(cur[r])' = 0
          /\ Pushing(cur[r])' = {}
          /\ delivered'[cur[r]] = 1 /\ sink'[cur[r]] = 0
          /\ iterEnq[r] = 0 /\ iterEnq'[r] = 0
          /\ friends'[r] = <<>>
          /\ pc'[r] = "loop"
          /\ timer'[r] = 0 /\ waited'[r] = 0]_vars

C18_Witness ==
  \E r \in Runs : \E i \in Ids :
    /\ last[r] = "persisterror" /\ pc[r] = "fetch" /\ waited[r] = 0
    /\ i # cur[r] /\ graph[i] # <<>>
    /\ delivered[i] = 1 /\ sink[i] = 0 /\ Pending(i) = 0

\* the friends page request of the scrape of run r has failed
FriendsFailed(r) == last[r] \in {"friends429", "friendsfail"}

\* C19: a failed friends page request, a 429 included, does not fail the
\* scrape: the step leads to the upsert with an empty friend list and never
\* to the catch block or the cooldown; the upsert that follows stores the
\* record and goes straight to a pacing delay of the normal range, with no
\* enqueueProfile call and no entry in the rate-limited ids.
C19_FriendsFailureSwallowed ==
  [][\A r \in Runs :
       /\ (pc[r] = "fetch" /\ FriendsFailed(r)')
            => /\ pc'[r] = "persist"
               /\ friends'[r] = <<>> /\ cur'[r] = cur[r]
               /\ timer'[r] = 0 /\ rl' = rl
               /\ frontier' = frontier
       /\ (pc[r] = "persist" /\ FriendsFailed(r))
            => /\ iterEnq[r] = 0
               /\ pc'[r] \in {"persist", "pacing", "loop"}
               /\ (sink'[cur[r]] = sink[cur[r]] + 1)
                    => /\ pc'[r] = "pacing"
                       /\ timer'[r] \in PACE_BASE_MS..(PACE_BASE_MS + PACE_SPAN_MS)
                       /\ iterEnq'[r] = 0 /\ rl' = rl
                       /\ frontier' = frontier]_vars

C19_Witness ==
  \E r \in Runs :
    /\ pc[r] = "pacing" /\ graph[cur[r]] # <<>>
    /\ iterEnq[r] = 0 /\ sink[cur[r]] = 1
    /\ failures > 0 /\ rl = {}
    /\ waited[r] > 0

\* C20: when the scrape that resolves a non-canonical seed throws, start()
\* returns on that step: seen and the queue are as before, no id was or is
\* accepted, rejected or delivered for this run, which holds no id and stays
\* returned, and this.running is left as it was (true unless stop() was
\* called).
C20_SeedResolveFailure ==
  [][\A r \in Runs :
       /\ (pc[r] = "resolve" /\ last'[r] = "seedfail")
            => /\ pc'[r] = "returned"
               /\ seen' = seen /\ queue' = queue
               /\ accepted' = accepted /\ rejected' = rejected
               /\ delivered' = delivered /\ sink' = sink
               /\ running' = running
       /\ last[r] = "seedfail"
            => /\ pc[r] = "returned" /\ pc'[r] = "returned"
               /\ ~IsSteamId64(seed[botOf[r]])
               /\ arg[r] = Nil /\ cur[r] = Nil /\ iterEnq[r] = 0
               /\ arg'[r] = Nil /\ cur'[r] = Nil /\ iterEnq'[r] = 0]_vars

C20_Witness ==
  \E r \in Runs :
    /\ last[r] = "seedfail" /\ pc[r] = "returned"
    /\ running[botOf[r]] /\ stops = 0
    /\ \E s \in Runs \ {r} : pc[s] = "fetch"

====
